---- MODULE Spec2Model ----
(***************************************************************************)
(* Model of the Bitcask key/value engine of src/src/bitcask.rs.            *)
(*                                                                         *)
(* The data directory is a map from file names to byte strings; segment    *)
(* and hint files hold the very bytes the codec writes, and recovery       *)
(* parses those bytes with a cursor the way build_keydir does.  One handle *)
(* is in use at a time: opening a new handle abandons the previous one     *)
(* (single-writer contract).                                               *)
(***************************************************************************)
EXTENDS Integers, Sequences, FiniteSets, TLC

(***************************************************************************)
(* Bounds of the model.                                                    *)
(***************************************************************************)
MaxClock == 2       \* the whole-second clock runs from 1 to MaxClock
MaxOpens == 3       \* open is called MaxOpens times in all
MaxMerges == 2      \* merge is called MaxMerges times in all
MaxPuts == 2        \* put and delete are called MaxPuts times in all
MaxShort == 1       \* File::write falls short MaxShort times in all
MaxCrashes == 1     \* a merge stops part-way MaxCrashes times in all

Keys == {<<97>>, <<98>>}          \* "a", "b"
\* the calls of put that are tried: put(a, 1), put(a, 2), put(b, 2)
PutInputs == {<<<<97>>, <<49>>>>, <<<<97>>, <<50>>>>, <<<<98>>, <<50>>>>}
\* the calls of delete that are tried: delete(a)
DeleteInputs == {<<97>>}
\* the calls with the empty key that are tried: put("", 1) and delete("")
EmptyKeyInputs == {<<<<>>, <<49>>>>}
EmptyKeyDeletes == {<<>>}
\* the byte counts at which a write that falls short is cut: nothing written,
\* inside the header, after the header, after the key
ShortWrites == {0, 20, 32, 33}

\* TOMBSTONE = b"__TOMBSTONE__"
TOMBSTONE == <<95, 95, 84, 79, 77, 66, 83, 84, 79, 78, 69, 95, 95>>

Min(a, b) == IF a < b THEN a ELSE b
Max(a, b) == IF a < b THEN b ELSE a

(***************************************************************************)
(* Record codec.                                                           *)
(***************************************************************************)
RECURSIVE LeBytes(_, _)
LeBytes(n, cnt) == IF cnt = 0 THEN <<>> ELSE <<n % 256>> \o LeBytes(n \div 256, cnt - 1)

\* u64::to_le_bytes
to_le_bytes(n) == LeBytes(n, 8)

\* Every u64 of 2^24 and more is read back as U64Big: no file of the model
\* is that long, so such a size or offset always lies beyond the end of file.
U64Big == 256 * 256 * 256

\* u64::from_le_bytes
from_le_bytes(b) ==
    IF \E i \in 4..8 : b[i] # 0 THEN U64Big
    ELSE b[1] + 256 * b[2] + 65536 * b[3]

\* DataFileEntry::new followed by DataFileEntry::to_bytes: crc = 0
DataFileEntry_to_bytes(timestamp, key, value) ==
    to_le_bytes(0) \o to_le_bytes(timestamp) \o to_le_bytes(Len(key))
        \o to_le_bytes(Len(value)) \o key \o value

\* HintFileEntry::to_bytes
HintFileEntry_to_bytes(timestamp, key_size, value_size, value_pos, key) ==
    to_le_bytes(timestamp) \o to_le_bytes(key_size) \o to_le_bytes(value_size)
        \o to_le_bytes(value_pos) \o key

(***************************************************************************)
(* File names.  A name is a stem and an extension, both as written on      *)
(* disk: the stem is a string of character codes, "" is no extension.      *)
(***************************************************************************)
RECURSIVE FormatU64(_)
\* format!("{}", id)
FormatU64(n) == IF n < 10 THEN <<48 + n>> ELSE FormatU64(n \div 10) \o <<48 + (n % 10)>>

DatName(id) == [stem |-> FormatU64(id), ext |-> "dat"]
HintName(id) == [stem |-> FormatU64(id), ext |-> "hint"]

\* Option<u64>::None
NoneId == 0 - 1

RECURSIVE DigitsValue(_, _)
DigitsValue(s, acc) ==
    IF s = <<>> THEN acc ELSE DigitsValue(Tail(s), 10 * acc + (Head(s) - 48))

\* str::parse::<u64>: an optional '+' and at least one decimal digit
ParseU64(s) ==
    LET d == IF s # <<>> /\ Head(s) = 43 THEN Tail(s) ELSE s
    IN IF d = <<>> \/ \E i \in 1..Len(d) : d[i] \notin 48..57
       THEN NoneId
       ELSE DigitsValue(d, 0)

get_file_id(name) == ParseU64(name.stem)

SetMax(S) == CHOOSE x \in S : \A y \in S : y <= x
SetMin(S) == CHOOSE x \in S : \A y \in S : x <= y

gen_file_id(fs, now) ==
    LET ids == {get_file_id(n) : n \in DOMAIN fs} \ {NoneId}
    IN SetMax(ids \cup {now}) + 1

(***************************************************************************)
(* Recovery.                                                               *)
(***************************************************************************)
EmptyMap == [k \in {} |-> 0]

\* HashMap::entry(k).or_insert(e): an entry that is there is kept
MapInsertIfAbsent(m, k, e) ==
    [x \in DOMAIN m \cup {k} |-> IF x \in DOMAIN m THEN m[x] ELSE e]

\* HashMap::insert
MapInsert(m, k, e) == [x \in DOMAIN m \cup {k} |-> IF x = k THEN e ELSE m[x]]

Zeros(n) == [i \in 1..n |-> 0]

\* Read::read_exact on a file whose cursor is at cur: the bytes that are
\* there are copied to the front of buf and the cursor moves past them; ok
\* tells whether buf was filled.
read_exact(bytes, cur, buf) ==
    LET a == Max(0, Min(Len(buf), Len(bytes) - cur))
    IN [buf |-> SubSeq(bytes, cur + 1, cur + a) \o SubSeq(buf, a + 1, Len(buf)),
        cur |-> cur + a,
        ok |-> a = Len(buf)]

KeyDir(file_id, value_size, value_pos, timestamp) ==
    [file_id |-> file_id, value_size |-> value_size,
     value_pos |-> value_pos, timestamp |-> timestamp]

RECURSIVE scan_hint(_, _, _, _, _, _)
\* build_keydir, the loop over a hint file
scan_hint(bytes, file_id, file_pos, cur, buf, map) ==
    IF ~(file_pos < Len(bytes)) THEN [tag |-> "Ok", map |-> map]
    ELSE LET r1 == read_exact(bytes, cur, buf)
             timestamp == from_le_bytes(r1.buf)
             r2 == read_exact(bytes, r1.cur, r1.buf)
             key_size == from_le_bytes(r2.buf)
             r3 == read_exact(bytes, r2.cur, r2.buf)
             value_size == from_le_bytes(r3.buf)
             r4 == read_exact(bytes, r3.cur, r3.buf)
             value_pos == from_le_bytes(r4.buf)
         IN IF key_size >= U64Big THEN [tag |-> "Abort", map |-> map]
            ELSE LET rk == read_exact(bytes, r4.cur, Zeros(key_size))
                 IN scan_hint(bytes, file_id, file_pos + 8 + 8 + 8 + 8 + key_size,
                              rk.cur, r4.buf,
                              MapInsert(map, rk.buf,
                                        KeyDir(file_id, value_size, value_pos, timestamp)))

RECURSIVE scan_dat(_, _, _, _, _, _)
\* build_keydir, the loop over a data file
scan_dat(bytes, file_id, file_pos, cur, buf, map) ==
    IF ~(file_pos < Len(bytes)) THEN [tag |-> "Ok", map |-> map]
    ELSE LET r1 == read_exact(bytes, cur + 8, buf)
             timestamp == from_le_bytes(r1.buf)
             r2 == read_exact(bytes, r1.cur, r1.buf)
             key_size == from_le_bytes(r2.buf)
             r3 == read_exact(bytes, r2.cur, r2.buf)
             value_size == from_le_bytes(r3.buf)
         IN IF key_size >= U64Big THEN [tag |-> "Abort", map |-> map]
            ELSE LET rk == read_exact(bytes, r3.cur, Zeros(key_size))
                     value_pos == file_pos + 8 + 8 + 8 + 8 + key_size
                 IN IF ~rk.ok THEN [tag |-> "Io", map |-> map]
                    ELSE scan_dat(bytes, file_id, value_pos + value_size,
                                  rk.cur + value_size, r3.buf,
                                  MapInsert(map, rk.buf,
                                            KeyDir(file_id, value_size, value_pos, timestamp)))

\* The directory entries that pass the extension test for one file_id.
Candidates(fs, id) ==
    {n \in DOMAIN fs : get_file_id(n) = id /\ n.ext \in {"dat", ""}}

\* The entry of that file_id which the sorted read_dir listing yields first.
FirstEntry(fs, id, noExtFirst) ==
    LET c == Candidates(fs, id)
        pref == {n \in c : (n.ext = "") = noExtFirst}
    IN IF pref # {} THEN CHOOSE n \in pref : TRUE ELSE CHOOSE n \in c : TRUE

\* The order of the sorted listing, descending.
first_file_id_desc(ids) == SetMax(ids)

\* sorted_entries.sort_by(file_id): the file_id that comes first.
first_file_id(ids) == SetMin(ids)

\* The listing orders of read_dir that recovery can tell apart: whether an
\* entry without extension precedes the others of its file_id.
ReadDirOrders(fs) == IF \E n \in DOMAIN fs : n.ext = "" THEN BOOLEAN ELSE {FALSE}

RECURSIVE build_from(_, _, _, _)
\* build_keydir, the loop over the sorted entries
build_from(fs, ids, noExtFirst, map) ==
    IF ids = {} THEN [tag |-> "Ok", map |-> map]
    ELSE LET file_id == first_file_id(ids)
             entry == FirstEntry(fs, file_id, noExtFirst)
             hint_filepath == [stem |-> entry.stem, ext |-> "hint"]
             r == IF hint_filepath \in DOMAIN fs
                  THEN scan_hint(fs[hint_filepath], file_id, 0, 0, Zeros(8), map)
                  ELSE scan_dat(fs[entry], file_id, 0, 0, Zeros(8), map)
         IN IF r.tag # "Ok" THEN r
            ELSE build_from(fs, ids \ {file_id}, noExtFirst, r.map)

build_keydir(fs, noExtFirst) ==
    build_from(fs, {id \in {get_file_id(n) : n \in DOMAIN fs} \ {NoneId} :
                       Candidates(fs, id) # {}},
               noExtFirst, EmptyMap)

(***************************************************************************)
(* Reads.                                                                  *)
(***************************************************************************)
\* Bitcask::get
get(kdir, fs, key) ==
    IF key \notin DOMAIN kdir THEN [tag |-> "KeyNotFound", val |-> <<>>]
    ELSE LET kd == kdir[key]
             filepath == DatName(kd.file_id)
         IN IF filepath \notin DOMAIN fs THEN [tag |-> "Io", val |-> <<>>]
            ELSE IF kd.value_size > 0 /\ kd.value_pos + kd.value_size > Len(fs[filepath])
                 THEN [tag |-> "Panic", val |-> <<>>]
                 ELSE [tag |-> "Ok",
                       val |-> SubSeq(fs[filepath], kd.value_pos + 1,
                                      kd.value_pos + kd.value_size)]

\* Bitcask::list_keys
list_keys(kdir) == DOMAIN kdir

(***************************************************************************)
(* State.                                                                  *)
(***************************************************************************)
VARIABLES
    files,           \* the data directory: file name -> bytes
    now,             \* SystemTime::now() in whole seconds
    opened,          \* a Bitcask handle is in use
    key_dir,         \* Bitcask.key_dir
    active_file_id,  \* Bitcask.active_file_id; active_file is that segment
    writer_pos,      \* Bitcask.writer_pos
    lastOp,          \* the operation that led to this state, and its result
    hist             \* what has been written so far (history)

vars == <<files, now, opened, key_dir, active_file_id, writer_pos, lastOp, hist>>

handle == <<opened, key_dir, active_file_id, writer_pos>>

Append_(fs, name, bytes) ==
    [n \in DOMAIN fs \cup {name} |->
        IF n = name THEN (IF n \in DOMAIN fs THEN fs[n] ELSE <<>>) \o bytes ELSE fs[n]]

\* OpenOptions::new().append(true).create(true).open(name)
OpenAppend(fs, name) == Append_(fs, name, <<>>)

SegmentIds(fs) == {get_file_id(n) : n \in {m \in DOMAIN fs : m.ext = "dat"}} \ {NoneId}

\* lastOp: the operation, its result, the file_id it assigned and the
\* file_ids of the segments that were there before it
Op(op, res, fid, preIds) ==
    [op |-> op, res |-> res, fid |-> fid, preIds |-> preIds,
     key |-> <<>>,             \* put, delete: the key argument
     val |-> <<>>,             \* put, delete: the value that put was given
     short |-> FALSE,          \* put: File::write appended less than the record
     prevPuts |-> EmptyMap,    \* open: sessPuts of the handle before this one
     prevMerges |-> 0,         \* open: sessMerges of the handle before this one
     prevLastMerge |-> FALSE,  \* open: that handle's last call was a merge
     prevOk |-> FALSE,         \* open: openOk of the handle before this one
     afterCrash |-> FALSE,     \* open: follows a merge that stopped, preOk
     preOk |-> FALSE]          \* merge: recovery agreed with hist.last before it

NoHist ==
    [last |-> EmptyMap,        \* key -> the value of its last put or delete
     loc |-> EmptyMap,         \* key -> where its latest record was appended
     sessPuts |-> EmptyMap,    \* key -> its last put or delete through this handle
     sessMerges |-> 0,         \* merges run through this handle (0, 1, many)
     lastMerge |-> FALSE,      \* the last call on this handle was a merge
     cleanMerge |-> FALSE,     \* a merge returned Ok and nothing was put since
     openOk |-> FALSE,         \* open recovered every key's last value
     torn |-> {},              \* the segments whose last record is cut short
     buried |-> FALSE,         \* a record was appended after one cut short
     nputs |-> 0,              \* calls of put and delete so far
     nshort |-> 0,             \* writes that fell short so far
     ncrash |-> 0,             \* merges that stopped part-way so far
     nopens |-> 0,             \* calls of open so far
     nmerges |-> 0]            \* calls of merge so far

Init ==
    /\ files = EmptyMap
    /\ now = 1
    /\ opened = FALSE
    /\ key_dir = EmptyMap
    /\ active_file_id = 0
    /\ writer_pos = 0
    /\ lastOp = Op("init", "Ok", NoneId, {})
    /\ hist = NoHist

\* The keydir map, read against the directory fs, gives every key the value
\* last written for it; a deleted key may also be gone.
Recovered(map, fs) ==
    \A k \in DOMAIN hist.last :
        \/ get(map, fs, k) = [tag |-> "Ok", val |-> hist.last[k]]
        \/ hist.last[k] = TOMBSTONE /\ k \notin DOMAIN map

(***************************************************************************)
(* The clock.                                                              *)
(***************************************************************************)
Tick ==
    /\ now < MaxClock
    /\ now' = now + 1
    /\ lastOp' = Op("tick", "Ok", NoneId, {})
    /\ UNCHANGED <<files, handle, hist>>

(***************************************************************************)
(* Bitcask::open                                                           *)
(***************************************************************************)
Open(noExtFirst) ==
    LET file_id == gen_file_id(files, now)
        fs1 == OpenAppend(files, DatName(file_id))
        r == build_keydir(fs1, noExtFirst)
    IN /\ hist.nopens < MaxOpens
       /\ files' = fs1
       /\ opened' = (r.tag = "Ok")
       /\ key_dir' = IF r.tag = "Ok" THEN r.map ELSE EmptyMap
       /\ active_file_id' = IF r.tag = "Ok" THEN file_id ELSE 0
       /\ writer_pos' = 0
       /\ lastOp' = [Op("open", r.tag, file_id, SegmentIds(files)) EXCEPT
                        !.prevPuts = hist.sessPuts,
                        !.prevMerges = hist.sessMerges,
                        !.prevLastMerge = hist.lastMerge,
                        !.prevOk = hist.openOk,
                        !.afterCrash = (lastOp.op = "mergecrash" /\ lastOp.preOk)]
       /\ hist' = [hist EXCEPT !.sessPuts = EmptyMap, !.sessMerges = 0,
                               !.lastMerge = FALSE,
                               !.openOk = (r.tag = "Ok" /\ Recovered(r.map, fs1)),
                               !.nopens = hist.nopens + 1]
       /\ UNCHANGED now

(***************************************************************************)
(* Bitcask::close                                                          *)
(***************************************************************************)
Close ==
    /\ opened
    /\ opened' = FALSE
    /\ key_dir' = EmptyMap
    /\ active_file_id' = 0
    /\ writer_pos' = 0
    /\ lastOp' = Op("close", "Unit", NoneId, {})
    /\ UNCHANGED <<files, now, hist>>

(***************************************************************************)
(* Bitcask::put and Bitcask::delete                                        *)
(***************************************************************************)
\* the value_pos that put records
put_value_pos(wpos, key_size) == wpos + 8 + 8 + 8 + 8 + key_size

\* The body of put; written is the number of bytes that File::write appended.
put(opname, key, value, written) ==
    LET key_size == Len(key)
        value_size == Len(value)
        timestamp == now
        value_pos == put_value_pos(writer_pos, key_size)
        kd_value == KeyDir(active_file_id, value_size, value_pos, timestamp)
        data == DataFileEntry_to_bytes(timestamp, key, value)
        active == DatName(active_file_id)
        at == IF active \in DOMAIN files THEN Len(files[active]) ELSE 0
    IN /\ opened
       /\ hist.nputs < MaxPuts
       /\ written < Len(data) => hist.nshort < MaxShort
       /\ files' = IF active \in DOMAIN files
                   THEN Append_(files, active, SubSeq(data, 1, written))
                   ELSE files
       /\ writer_pos' = writer_pos + Len(data)
       /\ key_dir' = MapInsert(key_dir, key, kd_value)
       /\ lastOp' = [Op(opname, "Unit", NoneId, {}) EXCEPT
                        !.key = key, !.val = value,
                        !.short = written < Len(data)]
       /\ hist' = [hist EXCEPT
                     !.last = MapInsert(hist.last, key, value),
                     !.loc = MapInsert(hist.loc, key,
                                       [file_id |-> active_file_id,
                                        value_pos |-> at + 8 + 8 + 8 + 8 + key_size,
                                        value_size |-> value_size]),
                     !.sessPuts = MapInsert(hist.sessPuts, key, value),
                     !.lastMerge = FALSE,
                     !.cleanMerge = FALSE,
                     !.torn = IF active \notin DOMAIN files \/ written = 0 THEN hist.torn
                              ELSE {t \in hist.torn : t.file_id # active_file_id}
                                   \cup (IF written < Len(data)
                                         THEN {[file_id |-> active_file_id, at |-> at]}
                                         ELSE {}),
                     !.buried = \/ hist.buried
                                \/ /\ written > 0
                                   /\ \E t \in hist.torn : t.file_id = active_file_id,
                     !.nputs = hist.nputs + 1,
                     !.nshort = hist.nshort + (IF written < Len(data) THEN 1 ELSE 0)]
       /\ UNCHANGED <<now, opened, active_file_id>>

RecLen(key, value) == 8 + 8 + 8 + 8 + Len(key) + Len(value)

Put(key, value) == put("put", key, value, RecLen(key, value))

Delete(key) == put("delete", key, TOMBSTONE, RecLen(key, TOMBSTONE))

\* put when File::write appends only n bytes of the record, or fails (n = 0)
PutShort(key, value, n) == n < RecLen(key, value) /\ put("put", key, value, n)

(***************************************************************************)
(* Bitcask::merge                                                          *)
(***************************************************************************)
\* The file_id merge gives its output segment.
merge_file_id(fs, clock) == IF DatName(clock) \in DOMAIN fs THEN clock + 1 ELSE clock

\* One round of the write loop for key: what it appends to the merge segment
\* and to the hint file.  stage 2 is the whole round; stage 1 stops between
\* the two appends.
merge_one(st, kdir, key, file_id, clock, stage) ==
    LET g == get(kdir, st.fs, key)
    IN IF g.tag = "Panic" THEN [st EXCEPT !.tag = "Panic"]
       ELSE IF g.tag # "Ok" \/ g.val = TOMBSTONE THEN st
       ELSE LET key_len == Len(key)
                data == DataFileEntry_to_bytes(clock, key, g.val)
                value_pos == st.write_pos + 8 + 8 + 8 + 8 + key_len
                hint == HintFileEntry_to_bytes(clock, key_len, Len(g.val), value_pos, key)
                at == Len(st.fs[DatName(file_id)])
                fs1 == Append_(st.fs, DatName(file_id), data)
                fs2 == IF stage = 2 THEN Append_(fs1, HintName(file_id), hint) ELSE fs1
            IN [fs |-> fs2,
                write_pos |-> IF stage = 2 THEN st.write_pos + Len(data) ELSE st.write_pos,
                tag |-> st.tag,
                loc |-> MapInsert(st.loc, key,
                                  [file_id |-> file_id,
                                   value_pos |-> at + 8 + 8 + 8 + 8 + key_len,
                                   value_size |-> Len(g.val)])]

RECURSIVE merge_loop(_, _, _, _, _)
\* The write loop over the keys of the snapshot, in HashMap iteration order.
merge_loop(st, kdir, order, file_id, clock) ==
    IF order = <<>> \/ st.tag = "Panic" THEN st
    ELSE merge_loop(merge_one(st, kdir, Head(order), file_id, clock, 2),
                    kdir, Tail(order), file_id, clock)

\* The files the deletion loop removes.
merge_removable(fs, file_id, active) ==
    {n \in DOMAIN fs : /\ get_file_id(n) # NoneId
                       /\ get_file_id(n) # file_id
                       /\ get_file_id(n) # active}

Remove(fs, names) == [n \in DOMAIN fs \ names |-> fs[n]]

\* The keydir the handle holds once merge has returned Ok.
merge_key_dir(snapshot) == snapshot

\* The latest records that are still on disk.
Kept(loc, fs) ==
    [k \in {x \in DOMAIN loc : DatName(loc[x].file_id) \in DOMAIN fs} |-> loc[k]]

\* The iteration orders of a HashMap with the keys S.
Orders(S) ==
    {o \in [1..Cardinality(S) -> S] : \A i, j \in 1..Cardinality(S) : o[i] = o[j] => i = j}

\* The state of merge when it enters the write loop.
merge_start(fs, file_id, loc) ==
    [fs |-> OpenAppend(OpenAppend(fs, DatName(file_id)), HintName(file_id)),
     write_pos |-> 0, tag |-> "Ok", loc |-> loc]

Merge(noExtFirst) ==
    LET r == build_keydir(files, noExtFirst)
        file_id == merge_file_id(files, now)
    IN /\ opened
       /\ hist.nmerges < MaxMerges
       /\ IF r.tag # "Ok"
          THEN /\ lastOp' = Op("merge", r.tag, NoneId, {})
               /\ opened' = (r.tag # "Abort")
               /\ hist' = [hist EXCEPT !.nmerges = hist.nmerges + 1]
               /\ UNCHANGED <<files, now, key_dir, active_file_id, writer_pos>>
          ELSE \E order \in Orders(DOMAIN r.map) :
                 LET st == merge_loop(merge_start(files, file_id, hist.loc), key_dir,
                                      order, file_id, now)
                     ok == st.tag = "Ok"
                 IN /\ files' = IF ok
                                THEN Remove(st.fs, merge_removable(st.fs, file_id,
                                                                   active_file_id))
                                ELSE st.fs
                    /\ opened' = ok
                    /\ active_file_id' = IF ok THEN file_id ELSE active_file_id
                    /\ writer_pos' = IF ok THEN st.write_pos ELSE writer_pos
                    /\ key_dir' = IF ok THEN merge_key_dir(r.map) ELSE key_dir
                    /\ lastOp' = Op("merge", st.tag, file_id, SegmentIds(files))
                    /\ hist' = [hist EXCEPT !.loc = Kept(st.loc, files'),
                                            !.sessMerges = Min(2, hist.sessMerges + 1),
                                            !.lastMerge = ok,
                                            !.cleanMerge = ok,
                                            !.nmerges = hist.nmerges + 1]
                    /\ UNCHANGED now

\* merge when the process stops inside it: after creating the merge segment
\* (point 0), after full full rounds of the write loop and, with half, the
\* data append of the next round (point 1), or after the write loop and the
\* removal of some of the files it removes (point 2).
MergeCrash(noExtFirst, point, full, half) ==
    LET r == build_keydir(files, noExtFirst)
        file_id == merge_file_id(files, now)
    IN /\ opened
       /\ hist.nmerges < MaxMerges
       /\ hist.ncrash < MaxCrashes
       /\ r.tag = "Ok"
       /\ \E order \in Orders(DOMAIN r.map) :
            LET st0 == merge_start(files, file_id, hist.loc)
                st1 == merge_loop(st0, key_dir, SubSeq(order, 1, full), file_id, now)
                st2 == IF half /\ st1.tag = "Ok"
                       THEN merge_one(st1, key_dir, order[full + 1], file_id, now, 1)
                       ELSE st1
                all == merge_loop(st0, key_dir, order, file_id, now)
            IN /\ full <= Len(order)
               /\ half => full < Len(order)
               /\ point = 0 => files' = OpenAppend(files, DatName(file_id))
               /\ point = 1 => files' = st2.fs
               /\ point = 2 =>
                    /\ all.tag = "Ok"
                    /\ \E del \in SUBSET merge_removable(all.fs, file_id,
                                                         active_file_id) :
                           files' = Remove(all.fs, del)
               /\ hist' = [hist EXCEPT
                             !.loc = Kept(IF point = 0 THEN hist.loc
                                          ELSE IF point = 1 THEN st2.loc ELSE all.loc,
                                          files'),
                             !.lastMerge = FALSE,
                             !.cleanMerge = FALSE,
                             !.nmerges = hist.nmerges + 1,
                             !.ncrash = hist.ncrash + 1]
       /\ opened' = FALSE
       /\ key_dir' = EmptyMap
       /\ active_file_id' = 0
       /\ writer_pos' = 0
       /\ lastOp' = [Op("mergecrash", "Crash", file_id, SegmentIds(files)) EXCEPT
                        !.preOk = Recovered(r.map, files)]
       /\ UNCHANGED now

(***************************************************************************)
(* The program without I/O failures.                                       *)
(***************************************************************************)
Next ==
    \/ Tick
    \/ \E b \in ReadDirOrders(files) : Open(b)
    \/ Close
    \/ \E kv \in PutInputs : Put(kv[1], kv[2])
    \/ \E k \in DeleteInputs : Delete(k)
    \/ \E b \in ReadDirOrders(files) : Merge(b)

Spec == Init /\ [][Next]_vars

(***************************************************************************)
(* The program when a merge may stop part-way (crash or kill).             *)
(***************************************************************************)
NextCrash ==
    \/ Tick
    \/ \E b \in ReadDirOrders(files) : Open(b)
    \/ Close
    \/ \E kv \in PutInputs : Put(kv[1], kv[2])
    \/ \E k \in DeleteInputs : Delete(k)
    \/ \E b \in ReadDirOrders(files) : MergeCrash(b, 0, 0, FALSE)
    \/ \E b \in ReadDirOrders(files), full \in 0..Cardinality(Keys), half \in BOOLEAN :
           MergeCrash(b, 1, full, half)
    \/ \E b \in ReadDirOrders(files) : MergeCrash(b, 2, 0, FALSE)

SpecCrash == Init /\ [][NextCrash]_vars

(***************************************************************************)
(* The program when a write to the active segment may fall short.          *)
(***************************************************************************)
NextFault ==
    \/ Tick
    \/ \E b \in ReadDirOrders(files) : Open(b)
    \/ Close
    \/ \E kv \in PutInputs : Put(kv[1], kv[2])
    \/ \E k \in DeleteInputs : Delete(k)
    \/ \E kv \in PutInputs, n \in ShortWrites : PutShort(kv[1], kv[2], n)

SpecFault == Init /\ [][NextFault]_vars

(***************************************************************************)
(* The program when callers also pass the empty key.                       *)
(***************************************************************************)
NextEmptyKey ==
    \/ Tick
    \/ \E b \in ReadDirOrders(files) : Open(b)
    \/ Close
    \/ \E kv \in PutInputs \cup EmptyKeyInputs : Put(kv[1], kv[2])
    \/ \E k \in DeleteInputs \cup EmptyKeyDeletes : Delete(k)

SpecEmptyKey == Init /\ [][NextEmptyKey]_vars

(***************************************************************************)
(* The program on a directory that also holds files of other origin.       *)
(***************************************************************************)
\* n.txt and 1.txt: an unparseable stem, and a numeric stem with an extension
\* other than dat and hint
OtherFiles ==
    [n \in {[stem |-> <<110>>, ext |-> "txt"], [stem |-> <<49>>, ext |-> "txt"]} |->
        <<120>>]

\* 02: a numeric name without extension, holding a copy of the record put(b, 2)
NoExtensionFile ==
    [n \in {[stem |-> <<48, 50>>, ext |-> ""]} |->
        DataFileEntry_to_bytes(1, <<98>>, <<50>>)]

\* the directory that the first open finds
ForeignDir ==
    [n \in DOMAIN OtherFiles \cup DOMAIN NoExtensionFile |->
        IF n \in DOMAIN OtherFiles THEN OtherFiles[n] ELSE NoExtensionFile[n]]

InitForeign ==
    /\ files = ForeignDir
    /\ now = 1
    /\ opened = FALSE
    /\ key_dir = EmptyMap
    /\ active_file_id = 0
    /\ writer_pos = 0
    /\ lastOp = Op("init", "Ok", NoneId, {})
    /\ hist = NoHist

NextForeign ==
    \/ Tick
    \/ \E b \in ReadDirOrders(files) : Open(b)
    \/ Close
    \/ \E kv \in PutInputs : Put(kv[1], kv[2])
    \/ \E b \in ReadDirOrders(files) : Merge(b)

SpecForeign == InitForeign /\ [][NextForeign]_vars

(***************************************************************************)
(* The program started on a directory that an earlier run has left: that   *)
(* run called open twice in second 1 (segments 2 and 3), put(a, 1) on the  *)
(* second handle and close; it is still second 1.                          *)
(***************************************************************************)
EarlierRunDir ==
    [n \in {DatName(2), DatName(3)} |->
        IF n = DatName(3) THEN DataFileEntry_to_bytes(1, <<97>>, <<49>>) ELSE <<>>]

InitRestart ==
    /\ files = EarlierRunDir
    /\ now = 1
    /\ opened = FALSE
    /\ key_dir = EmptyMap
    /\ active_file_id = 0
    /\ writer_pos = 0
    /\ lastOp = Op("init", "Ok", NoneId, {})
    /\ hist = [NoHist EXCEPT
                 !.last = MapInsert(EmptyMap, <<97>>, <<49>>),
                 !.loc = MapInsert(EmptyMap, <<97>>,
                                   [file_id |-> 3, value_pos |-> 8 + 8 + 8 + 8 + 1,
                                    value_size |-> 1])]

SpecRestart == InitRestart /\ [][Next]_vars

(***************************************************************************)
(* Properties.                                                             *)
(***************************************************************************)
Ok(v) == [tag |-> "Ok", val |-> v]

\* the keys whose last write was a put of a value other than the tombstone
LiveKeys == {k \in DOMAIN hist.last : hist.last[k] # TOMBSTONE}

\* the keys whose last write was a delete
DeletedKeys == {k \in DOMAIN hist.last : hist.last[k] = TOMBSTONE}

AfterOk(op) == lastOp.op = op /\ lastOp.res = "Ok"

\* C1: on an open handle, every key whose last operation was put(k, v), v not
\* the tombstone, has a keydir entry naming a segment that exists, and get(k)
\* returns v.
C1_GetReturnsLastPut ==
    opened =>
        \A k \in LiveKeys :
            /\ k \in DOMAIN key_dir
            /\ DatName(key_dir[k].file_id) \in DOMAIN files
            /\ get(key_dir, files, k) = Ok(hist.last[k])

\* C2: when a handle on which no merge ran is left and the directory is
\* opened again, get on the new handle returns, for every key put through the
\* old handle, the value last put for it.
C2_ReopenRoundTrip ==
    (AfterOk("open") /\ lastOp.prevMerges = 0) =>
        \A k \in DOMAIN lastOp.prevPuts :
            get(key_dir, files, k) = Ok(lastOp.prevPuts[k])

\* C2, its case: a reopen after puts, on a directory that a merge has left a
\* hint file in.
C2_Witness ==
    /\ AfterOk("open")
    /\ lastOp.prevMerges = 0
    /\ lastOp.prevPuts # EmptyMap
    /\ \E n \in DOMAIN files : n.ext = "hint"

\* C3: whenever N.hint exists, every key whose latest record lies in segment
\* N has a record in N.hint with that record's value position and size.
C3_HintCoversSegment ==
    \A n \in DOMAIN files :
        (n.ext = "hint" /\ get_file_id(n) # NoneId) =>
            LET h == scan_hint(files[n], get_file_id(n), 0, 0, Zeros(8), EmptyMap).map
            IN \A k \in DOMAIN hist.loc :
                   hist.loc[k].file_id = get_file_id(n) =>
                       /\ k \in DOMAIN h
                       /\ h[k].value_pos = hist.loc[k].value_pos
                       /\ h[k].value_size = hist.loc[k].value_size

\* C4: the file_id that open or merge assigns is greater than the file_id of
\* every segment already in the directory.
C4_FileIdsIncrease ==
    (lastOp.op \in {"open", "merge"} /\ lastOp.fid # NoneId) =>
        \A id \in lastOp.preIds : lastOp.fid > id

\* C5: after merge returns Ok, every keydir entry of a live key has the merge
\* file_id and a value range inside the merge segment.
C5_MergeCondenses ==
    AfterOk("merge") =>
        \A k \in LiveKeys \cap DOMAIN key_dir :
            /\ key_dir[k].file_id = active_file_id
            /\ key_dir[k].value_pos + key_dir[k].value_size
                   <= Len(files[DatName(active_file_id)])

\* C6: when a handle that only ran merge is left and the directory is opened
\* again, get on the new handle returns the value last put for every live
\* key, and the keydir refers to exactly one file_id.
C6_MergeThenReopen ==
    (/\ AfterOk("open")
     /\ lastOp.prevLastMerge /\ lastOp.prevMerges = 1 /\ lastOp.prevPuts = EmptyMap
     /\ lastOp.prevOk
     /\ LiveKeys # {}) =>
        /\ \A k \in LiveKeys : get(key_dir, files, k) = Ok(hist.last[k])
        /\ Cardinality({key_dir[k].file_id : k \in DOMAIN key_dir}) = 1

\* C7: a handle opened after a merge (nothing put since) has no key whose last
\* write was a delete: list_keys lacks it and get returns KeyNotFound.
C7_DeleteMergeReopen ==
    (AfterOk("open") /\ hist.cleanMerge) =>
        \A k \in DeletedKeys :
            /\ k \notin list_keys(key_dir)
            /\ get(key_dir, files, k).tag = "KeyNotFound"

\* C8: after merge returns Ok, list_keys on the merging handle has no key
\* whose last write was a delete, and get on such a key returns KeyNotFound.
C8_MergeDropsTombstones ==
    AfterOk("merge") =>
        \A k \in DeletedKeys :
            /\ k \notin list_keys(key_dir)
            /\ get(key_dir, files, k).tag = "KeyNotFound"

\* C9: when a merge stopped part-way on a directory that recovery read
\* correctly, the next open succeeds and maps every key to the value last
\* written for it; a deleted key is gone or reads as the tombstone.
C9_StoppedMergeRecoverable ==
    (lastOp.op = "open" /\ lastOp.afterCrash) =>
        /\ lastOp.res = "Ok"
        /\ Recovered(key_dir, files)

\* C10: a put whose write fell short leaves the keydir as it was and reports
\* an I/O error.
C10_FailedPutKeepsKeydir ==
    [][(lastOp'.op = "put" /\ lastOp'.short) =>
           (key_dir' = key_dir /\ lastOp'.res = "Io")]_vars

\* C11: put and delete with the empty key are rejected with InvalidArgument
\* and change nothing: the files and writer_pos stay as they were and the
\* keydir does not get the empty key.
C11_EmptyKeyRejected ==
    [][(lastOp'.op \in {"put", "delete"} /\ lastOp'.key = <<>>) =>
           /\ lastOp'.res = "InvalidArgument"
           /\ files' = files
           /\ writer_pos' = writer_pos
           /\ <<>> \notin DOMAIN key_dir']_vars

\* The directory fs without the records that were cut short.
WithoutTornTails(fs, torn) ==
    [n \in DOMAIN fs |->
        IF \E t \in torn : n = DatName(t.file_id)
        THEN SubSeq(fs[n], 1, (CHOOSE t \in torn : n = DatName(t.file_id)).at)
        ELSE fs[n]]

\* C12: when the last record of a data file is cut short (inside the header,
\* or after it inside the key or the value), open succeeds, the keydir is the
\* one of the complete records alone, and no entry reaches past the end of
\* its segment.
C12_TruncatedTailTolerated ==
    (lastOp.op = "open" /\ hist.torn # {} /\ ~hist.buried) =>
        /\ lastOp.res = "Ok"
        /\ key_dir = build_keydir(WithoutTornTails(files, hist.torn), FALSE).map
        /\ \A k \in DOMAIN key_dir :
               key_dir[k].value_pos + key_dir[k].value_size
                   <= Len(files[DatName(key_dir[k].file_id)])

\* a file that is neither a <file_id>.dat segment nor a <file_id>.hint sidecar
IsForeign(n) == ~(n.ext \in {"dat", "hint"} /\ get_file_id(n) # NoneId)

\* C13: merge leaves every file that is neither a <file_id>.dat segment nor
\* a <file_id>.hint sidecar in the directory, with its content unchanged.
C13_MergeKeepsForeignFiles ==
    [][lastOp'.op = "merge" =>
           \A n \in DOMAIN files :
               IsForeign(n) => (n \in DOMAIN files' /\ files'[n] = files[n])]_vars

\* The directory fs without its foreign files.
SegmentsOnly(fs) == [n \in {m \in DOMAIN fs : ~IsForeign(m)} |-> fs[n]]

\* C16: the keydir that open builds is the one of the <file_id>.dat segments
\* and their hint files alone: no other directory entry adds an entry to it
\* or keeps a segment from being read.
C16_OnlyCandidateSegments ==
    (lastOp.op = "open" /\ build_keydir(SegmentsOnly(files), FALSE).tag = "Ok") =>
        /\ lastOp.res = "Ok"
        /\ key_dir = build_keydir(SegmentsOnly(files), FALSE).map

\* C19: on an open handle writer_pos is the length of the active segment
\* file, and the value_pos of the entry that put has just inserted is the
\* offset at which the value bytes lie in that file.
C19_WriterPosIsSegmentLength ==
    opened =>
        /\ DatName(active_file_id) \in DOMAIN files
        /\ writer_pos = Len(files[DatName(active_file_id)])
        /\ lastOp.op \in {"put", "delete"} =>
               /\ lastOp.key \in DOMAIN key_dir
               /\ get(key_dir, files, lastOp.key) = Ok(lastOp.val)

\* C14: delete(k) does what put(k, TOMBSTONE) does to the handle and to the
\* active segment; when it follows put(k, v) on the handle, k is in the
\* keydir and in list_keys and get(k) returns the 13 bytes of the tombstone.
C14_DeleteIsPutTombstone ==
    [][(lastOp'.op = "delete" /\ lastOp.op = "put" /\ lastOp.key = lastOp'.key) =>
           LET k == lastOp'.key
               active == DatName(active_file_id)
           IN /\ key_dir' = MapInsert(key_dir, k,
                                      KeyDir(active_file_id, Len(TOMBSTONE),
                                             put_value_pos(writer_pos, Len(k)), now))
              /\ files' = Append_(files, active, DataFileEntry_to_bytes(now, k, TOMBSTONE))
              /\ writer_pos' = writer_pos + RecLen(k, TOMBSTONE)
              /\ k \in list_keys(key_dir')
              /\ get(key_dir', files', k) = Ok(TOMBSTONE)
              /\ Len(get(key_dir', files', k).val) = 8 + 5]_vars

\* C15: when put(k, v) follows put(k, v) on a handle, get(k) returns v, the
\* active segment has grown by the 32 + |k| + |v| bytes of one record, and the
\* keydir has the keys it had, each with the value it had.
C15_PutIdempotent ==
    [][(lastOp'.op = "put" /\ lastOp.op = "put"
        /\ lastOp.key = lastOp'.key /\ lastOp.val = lastOp'.val) =>
           LET k == lastOp'.key
               v == lastOp'.val
               active == DatName(active_file_id)
           IN /\ get(key_dir', files', k) = Ok(v)
              /\ Len(files'[active]) = Len(files[active]) + 32 + Len(k) + Len(v)
              /\ DOMAIN key_dir' = DOMAIN key_dir
              /\ \A x \in DOMAIN key_dir :
                     get(key_dir', files', x) = get(key_dir, files, x)]_vars

\* C17: after merge returns Ok, the keydir built from the hint file it wrote
\* has the keys of a sequential scan of its data file, each with the same
\* value_pos and value_size.
C17_HintAgreesWithData ==
    AfterOk("merge") =>
        LET id == lastOp.fid
            h == scan_hint(files[HintName(id)], id, 0, 0, Zeros(8), EmptyMap).map
            d == scan_dat(files[DatName(id)], id, 0, 0, Zeros(8), EmptyMap).map
        IN /\ DOMAIN h = DOMAIN d
           /\ \A k \in DOMAIN h \cap DOMAIN d :
                  /\ h[k].value_pos = d[k].value_pos
                  /\ h[k].value_size = d[k].value_size

RECURSIVE DatRecords(_, _)
\* The records of a data file from offset pos on, in file order, by the
\* layout of DataFileEntry::to_bytes: crc, timestamp, key_size, value_size,
\* key, value.
DatRecords(bytes, pos) ==
    IF pos + 8 + 8 + 8 + 8 > Len(bytes) THEN <<>>
    ELSE LET key_size == from_le_bytes(SubSeq(bytes, pos + 17, pos + 24))
             value_size == from_le_bytes(SubSeq(bytes, pos + 25, pos + 32))
         IN <<[key |-> SubSeq(bytes, pos + 33, pos + 32 + key_size),
               timestamp |-> from_le_bytes(SubSeq(bytes, pos + 9, pos + 16)),
               value_size |-> value_size,
               value_pos |-> pos + 32 + key_size]>>
            \o DatRecords(bytes, pos + 32 + key_size + value_size)

RECURSIVE HintRecords(_, _)
\* The records of a hint file from offset pos on, in file order, by the
\* layout of HintFileEntry::to_bytes: timestamp, key_size, value_size,
\* value_pos, key.
HintRecords(bytes, pos) ==
    IF pos + 8 + 8 + 8 + 8 > Len(bytes) THEN <<>>
    ELSE LET key_size == from_le_bytes(SubSeq(bytes, pos + 9, pos + 16))
         IN <<[key |-> SubSeq(bytes, pos + 33, pos + 32 + key_size),
               timestamp |-> from_le_bytes(SubSeq(bytes, pos + 1, pos + 8)),
               value_size |-> from_le_bytes(SubSeq(bytes, pos + 17, pos + 24)),
               value_pos |-> from_le_bytes(SubSeq(bytes, pos + 25, pos + 32))]>>
            \o HintRecords(bytes, pos + 32 + key_size)

\* The records that stand for segment id: those of its hint file when it has
\* one, else those of its data file.
SegmentRecords(fs, id) ==
    IF HintName(id) \in DOMAIN fs THEN HintRecords(fs[HintName(id)], 0)
    ELSE DatRecords(fs[DatName(id)], 0)

\* the segments that have a record of key k
SegmentsWith(fs, k) ==
    {id \in SegmentIds(fs) :
        \E i \in DOMAIN SegmentRecords(fs, id) : SegmentRecords(fs, id)[i].key = k}

\* the last record of key k in the sequence recs
LastRecord(recs, k) ==
    recs[SetMax({i \in DOMAIN recs : recs[i].key = k})]

RecordValue(bytes, rec) == SubSeq(bytes, rec.value_pos + 1, rec.value_pos + rec.value_size)

\* C20: after merge returns Ok, the merge segment has exactly one record for
\* every key of the snapshot M whose value is not the tombstone, with that
\* value, and no record for any other key.
C20_MergeOutputExact ==
    [][(lastOp'.op = "merge" /\ lastOp'.res = "Ok") =>
           LET M == build_keydir(files, FALSE).map
               live == {k \in DOMAIN M : /\ get(M, files, k).tag = "Ok"
                                         /\ get(M, files, k).val # TOMBSTONE}
               bytes == files'[DatName(lastOp'.fid)]
               recs == DatRecords(bytes, 0)
           IN /\ \A i \in DOMAIN recs : recs[i].key \in live
              /\ \A k \in live :
                     /\ Cardinality({i \in DOMAIN recs : recs[i].key = k}) = 1
                     /\ RecordValue(bytes, LastRecord(recs, k)) = get(M, files, k).val]_vars

====
